---- MODULE Spec2Model ----
(***************************************************************************)
(* Model of tonic's ClientTlsConfig (transport/channel/tls.rs): the        *)
(* builder with its chained setters and the tls_connector resolution that  *)
(* picks the verification domain and the engine constructor.               *)
(***************************************************************************)
EXTENDS Integers, Sequences, FiniteSets, TLC

\* ---------------------------------------------------------------- bounds
MaxName == 2        \* distinct host / domain strings
MaxCert == 1        \* distinct Certificate values
MaxIdentity == 1    \* distinct Identity values
MaxRaw == 1         \* distinct rustls ClientConfig values

Names == 1..MaxName
Certificates == 1..MaxCert
Identities == 1..MaxIdentity
RawConfigs == 1..MaxRaw

\* ----------------------------------------------------- Option<T> as a set
None == {}
Some(x) == {x}
Unwrap(o) == CHOOSE x \in o : TRUE
Option(S) == {None} \cup {Some(x) : x \in S}

\* ------------------------------------------------------------- http::Uri
\* A parsed target: only its host component is read.
Uris == [host : Option(Names)]
UriHost(uri) == uri.host

\* ------------------------------------------------------------- the errors
InvalidUri == "InvalidUri"
TlsEngineError == "TlsEngineError"
Ok(connector) == [ok |-> TRUE, err |-> "", connector |-> <<connector>>]
Err(e) == [ok |-> FALSE, err |-> e, connector |-> <<>>]

\* ------------------------------------------------------------ the builder
New_validation_off(dangerous) ==
    IF dangerous
    THEN [domain |-> None, cert |-> None, identity |-> None,
          rustls_raw |-> None, certs_validation |-> FALSE]
    ELSE [domain |-> None, cert |-> None, identity |-> None,
          rustls_raw |-> None]

\* ClientTlsConfig::new; certs_validation exists only under tls-dangerous
New(dangerous) ==
    IF dangerous
    THEN [domain |-> None, cert |-> None, identity |-> None,
          rustls_raw |-> None, certs_validation |-> TRUE]
    ELSE [domain |-> None, cert |-> None, identity |-> None,
          rustls_raw |-> None]

domain_name(self, name) == [self EXCEPT !.domain = Some(name)]

ca_certificate_drops_domain(self, ca) ==
    [self EXCEPT !.cert = Some(ca), !.domain = None]

ca_certificate(self, ca) == [self EXCEPT !.cert = Some(ca)]

identity(self, id) == [self EXCEPT !.identity = Some(id)]

rustls_client_config(self, config) == [self EXCEPT !.rustls_raw = Some(config)]

danger_accept_invalid_certs(self) == [self EXCEPT !.certs_validation = TRUE]

\* ------------------------------------------------- the engine constructors
\* One invocation of a TlsConnector constructor with the arguments it is
\* handed; a field the constructor does not take is None.
Ctors == {"new_with_rustls_cert", "new_with_rustls_raw"}

\* The engine accepts or rejects what it is given; eng is its verdict.
Engines == BOOLEAN
EngineReturn(inv, eng) == IF eng THEN Ok(inv) ELSE Err(TlsEngineError)

\* ------------------------------------------------------------ tls_connector
ResolveDomain_host_first(self, uri) ==
    IF UriHost(uri) # None THEN UriHost(uri) ELSE self.domain

ResolveDomain_no_fallback(self, uri) == self.domain

ResolveDomain_override_needs_host(self, uri) ==
    IF UriHost(uri) = None THEN None
    ELSE IF self.domain = None THEN UriHost(uri) ELSE self.domain

\* let domain = match &self.domain { .. }; None stands for the early return
ResolveDomain(self, uri) ==
    IF self.domain = None THEN UriHost(uri) ELSE self.domain

\* let certs_validation = { .. } under the two builds
CertsValidation(self, dangerous) ==
    IF dangerous THEN self.certs_validation ELSE TRUE

new_with_rustls_cert_call(self, dangerous, domain) ==
    [ctor |-> "new_with_rustls_cert", raw |-> None,
     cert |-> self.cert, identity |-> self.identity,
     certs_validation |-> Some(CertsValidation(self, dangerous)),
     domain |-> domain]

new_with_rustls_raw_call_forwards_cert(self, domain) ==
    [ctor |-> "new_with_rustls_raw", raw |-> self.rustls_raw,
     cert |-> self.cert, identity |-> None,
     certs_validation |-> None, domain |-> domain]

new_with_rustls_raw_call(self, domain) ==
    [ctor |-> "new_with_rustls_raw", raw |-> self.rustls_raw,
     cert |-> None, identity |-> None,
     certs_validation |-> None, domain |-> domain]

Invocation(self, dangerous, domain) ==
    IF self.rustls_raw = None
    THEN new_with_rustls_cert_call(self, dangerous, domain)
    ELSE new_with_rustls_raw_call(self, domain)

tls_connector_retries(self, uri, dangerous, eng) ==
    LET d == ResolveDomain(self, uri) IN
    IF d = None
    THEN [self |-> self, ret |-> Err(InvalidUri), calls |-> <<>>, outs |-> <<>>]
    ELSE LET inv == Invocation(self, dangerous, Unwrap(d))
             out == EngineReturn(inv, eng)
         IN  IF out.ok
             THEN [self |-> self, ret |-> out, calls |-> <<inv>>, outs |-> <<out>>]
             ELSE [self |-> self, ret |-> out,
                   calls |-> <<inv, inv>>, outs |-> <<out, out>>]

tls_connector_caches_domain(self, uri, dangerous, eng) ==
    LET d == ResolveDomain(self, uri) IN
    IF d = None
    THEN [self |-> self, ret |-> Err(InvalidUri), calls |-> <<>>, outs |-> <<>>]
    ELSE LET inv == Invocation(self, dangerous, Unwrap(d))
             out == EngineReturn(inv, eng)
         IN  [self |-> [self EXCEPT !.domain = d], ret |-> out,
              calls |-> <<inv>>, outs |-> <<out>>]

\* tls_connector(&self, uri): the builder as the call leaves it, the value
\* returned, the constructor invocations made and what each returned.
tls_connector(self, uri, dangerous, eng) ==
    LET d == ResolveDomain(self, uri) IN
    IF d = None
    THEN [self |-> self, ret |-> Err(InvalidUri), calls |-> <<>>, outs |-> <<>>]
    ELSE LET inv == Invocation(self, dangerous, Unwrap(d))
             out == EngineReturn(inv, eng)
         IN  [self |-> self, ret |-> out, calls |-> <<inv>>, outs |-> <<out>>]

\* ------------------------------------------------------------------ state
VARIABLES
    tls_dangerous,  \* whether the tls-dangerous feature is compiled in
    cfg,            \* the ClientTlsConfig value the caller holds
    hist,           \* the value last supplied to each setter since new()
    last,           \* <<>> or <<the latest tls_connector call>>
    recent          \* URIs of the (at most two) latest calls since cfg changed

vars == <<tls_dangerous, cfg, hist, last, recent>>

NoHist == [domain |-> None, cert |-> None, identity |-> None,
           rustls_raw |-> None, danger |-> FALSE]

Init ==
    /\ tls_dangerous \in BOOLEAN
    /\ cfg = New(tls_dangerous)
    /\ hist = NoHist
    /\ last = <<>>
    /\ recent = <<>>

NewBuilder ==
    /\ cfg' = New(tls_dangerous)
    /\ hist' = NoHist
    /\ recent' = <<>>
    /\ UNCHANGED <<tls_dangerous, last>>

DomainName(name) ==
    /\ cfg' = domain_name(cfg, name)
    /\ hist' = [hist EXCEPT !.domain = Some(name)]
    /\ recent' = <<>>
    /\ UNCHANGED <<tls_dangerous, last>>

CaCertificate(ca) ==
    /\ cfg' = ca_certificate(cfg, ca)
    /\ hist' = [hist EXCEPT !.cert = Some(ca)]
    /\ recent' = <<>>
    /\ UNCHANGED <<tls_dangerous, last>>

SetIdentity(id) ==
    /\ cfg' = identity(cfg, id)
    /\ hist' = [hist EXCEPT !.identity = Some(id)]
    /\ recent' = <<>>
    /\ UNCHANGED <<tls_dangerous, last>>

RustlsClientConfig(config) ==
    /\ cfg' = rustls_client_config(cfg, config)
    /\ hist' = [hist EXCEPT !.rustls_raw = Some(config)]
    /\ recent' = <<>>
    /\ UNCHANGED <<tls_dangerous, last>>

\* the method exists only when the feature is compiled in
DangerAcceptInvalidCerts ==
    /\ tls_dangerous
    /\ cfg' = danger_accept_invalid_certs(cfg)
    /\ hist' = [hist EXCEPT !.danger = TRUE]
    /\ recent' = <<>>
    /\ UNCHANGED <<tls_dangerous, last>>

\* the URIs of the latest two calls on an unchanged builder
Remember(uris, uri) ==
    IF Len(uris) < 2 THEN Append(uris, uri) ELSE <<uris[2], uri>>

TlsConnector(uri, eng) ==
    LET r == tls_connector(cfg, uri, tls_dangerous, eng) IN
    /\ cfg' = r.self
    /\ last' = <<[self |-> cfg, danger |-> hist.danger, uri |-> uri,
                  ret |-> r.ret, calls |-> r.calls, outs |-> r.outs]>>
    /\ recent' = IF r.self = cfg THEN Remember(recent, uri) ELSE <<>>
    /\ UNCHANGED <<tls_dangerous, hist>>

Next ==
    \/ NewBuilder
    \/ \E name \in Names : DomainName(name)
    \/ \E ca \in Certificates : CaCertificate(ca)
    \/ \E id \in Identities : SetIdentity(id)
    \/ \E config \in RawConfigs : RustlsClientConfig(config)
    \/ DangerAcceptInvalidCerts
    \/ \E uri \in Uris, eng \in Engines : TlsConnector(uri, eng)

Spec == Init /\ [][Next]_vars

\* ------------------------------------------------------------- properties
Called == Len(last) = 1
Call == last[1]
Resolves(c) == c.self.domain # None \/ UriHost(c.uri) # None
FailedInvalidUri(c) == ~c.ret.ok /\ c.ret.err = InvalidUri

C2_DomainFallbackPerCall ==
    (Called /\ Call.self.domain = None /\ UriHost(Call.uri) # None) =>
        /\ Len(Call.calls) = 1
        /\ Call.calls[1].domain = Unwrap(UriHost(Call.uri))

C2_Witness ==
    /\ Called
    /\ Call.self.domain = None
    /\ Len(recent) = 2
    /\ recent[2] = Call.uri
    /\ UriHost(recent[1]) # None
    /\ UriHost(recent[2]) # None
    /\ UriHost(recent[1]) # UriHost(recent[2])
    /\ Len(Call.calls) = 1
    /\ Call.calls[1].domain = Unwrap(UriHost(Call.uri))

\* C3: tls_connector fails with the invalid-URI error exactly when the
\* builder has no domain override and the URI has no host, whatever the
\* other fields are; then no constructor is invoked and no connector is
\* returned.
C3_InvalidUriIff ==
    Called =>
        /\ FailedInvalidUri(Call) <=>
               (Call.self.domain = None /\ UriHost(Call.uri) = None)
        /\ FailedInvalidUri(Call) =>
               (Call.calls = <<>> /\ Call.ret.connector = <<>>)

C3_Witness ==
    /\ Called
    /\ Call.self.domain = None
    /\ UriHost(Call.uri) = None
    /\ Call.self.cert # None
    /\ Call.self.identity # None
    /\ Call.self.rustls_raw # None
    /\ FailedInvalidUri(Call)
    /\ Call.calls = <<>>

\* C4: with a raw engine config set, the constructor gets the raw config
\* and the resolved domain only; two calls on builders that agree on raw
\* config and domain override, with the same URI, make identical
\* invocations even when CA certificate, identity or validation differ.
C4_RawArgsOnly(c) ==
    (c.self.rustls_raw # None /\ Resolves(c)) =>
        /\ Len(c.calls) = 1
        /\ c.calls[1].ctor = "new_with_rustls_raw"
        /\ c.calls[1].raw = c.self.rustls_raw
        /\ c.calls[1].cert = None
        /\ c.calls[1].identity = None
        /\ c.calls[1].certs_validation = None

C4_RawExclusivity ==
    [][(Len(last') = 1) =>
          /\ C4_RawArgsOnly(last'[1])
          /\ ( /\ Called
               /\ Call.self.rustls_raw # None
               /\ last'[1].self.rustls_raw = Call.self.rustls_raw
               /\ last'[1].self.domain = Call.self.domain
               /\ last'[1].uri = Call.uri )
             => last'[1].calls = Call.calls]_vars

C4_Witness ==
    /\ Called
    /\ Call.self.rustls_raw # None
    /\ Call.self.cert # None
    /\ Call.self.identity # None
    /\ Len(Call.calls) = 1
    /\ Call.calls[1].ctor = "new_with_rustls_raw"
    /\ Call.calls[1].cert = None

\* C5: with tls-dangerous compiled in, after danger_accept_invalid_certs
\* was called on a builder without raw config, tls_connector passes
\* certs_validation = false to the default-engine constructor.
C5_DangerDisablesValidation ==
    ( /\ tls_dangerous
      /\ Called
      /\ Call.danger
      /\ Call.self.rustls_raw = None
      /\ Resolves(Call) )
    => /\ Len(Call.calls) = 1
       /\ Call.calls[1].certs_validation = Some(FALSE)

\* C6: a builder made from new() by domain_name, ca_certificate and
\* identity calls only (no danger_accept_invalid_certs, no raw config)
\* always has the default-engine constructor invoked with validation
\* enforced, in either build.
C6_DefaultValidation ==
    ( /\ Called
      /\ ~Call.danger
      /\ Call.self.rustls_raw = None )
    => \A k \in 1..Len(Call.calls) :
           /\ Call.calls[k].ctor = "new_with_rustls_cert"
           /\ Call.calls[k].certs_validation = Some(TRUE)

C6_Witness ==
    /\ tls_dangerous
    /\ Called
    /\ ~Call.danger
    /\ Call.self.rustls_raw = None
    /\ Call.self.cert # None
    /\ Len(Call.calls) = 1
    /\ Call.calls[1].certs_validation = Some(TRUE)

\* C7: with a raw config in use domain_name has no effect: two calls with
\* the same raw config and the same URI (with a host), one on a builder
\* with a domain override and one without, make the same invocation.
C7_DomainNameNoEffectWithRaw ==
    [][( /\ Called
         /\ Len(last') = 1
         /\ Call.self.rustls_raw # None
         /\ last'[1].self.rustls_raw = Call.self.rustls_raw
         /\ last'[1].uri = Call.uri
         /\ UriHost(Call.uri) # None
         /\ (Call.self.domain = None) # (last'[1].self.domain = None) )
       => last'[1].calls = Call.calls]_vars

\* C8: tls_connector leaves the builder as it was, and a second call on
\* the same builder with the same URI has the same outcome: the same
\* error without any invocation, or the same constructor invocation.
\* A step is a tls_connector call exactly when it records a call or
\* extends recent: every setter leaves last alone and empties recent.
CallStep == last' # last \/ recent' # <<>>

C8_IdempotentResolution ==
    [][CallStep =>
          /\ cfg' = cfg
          /\ (Called /\ Call.self = cfg /\ Call.uri = last'[1].uri) =>
                 /\ last'[1].calls = Call.calls
                 /\ (Call.calls = <<>>) => (last'[1].ret = Call.ret)]_vars

C8_Witness ==
    /\ Called
    /\ Call.self = cfg
    /\ recent = <<Call.uri, Call.uri>>
    /\ Len(Call.calls) = 1

\* C9: when the domain resolves, tls_connector invokes the constructor of
\* its branch exactly once and returns exactly what that invocation
\* returned, an engine error included; nothing is retried and the other
\* branch is not tried.
C9_EnginePropagation ==
    (Called /\ Resolves(Call)) =>
        /\ Len(Call.calls) = 1
        /\ Len(Call.outs) = 1
        /\ Call.calls[1].ctor = IF Call.self.rustls_raw = None
                                THEN "new_with_rustls_cert"
                                ELSE "new_with_rustls_raw"
        /\ Call.ret = Call.outs[1]
        /\ Call.ret.ok => Call.ret.connector = <<Call.calls[1]>>
        /\ ~Call.ret.ok => Call.ret.connector = <<>>

C9_Witness ==
    /\ Called
    /\ Resolves(Call)
    /\ Call.self.rustls_raw # None
    /\ ~Call.ret.ok
    /\ Call.ret.err = TlsEngineError
    /\ Len(Call.calls) = 1

\* C10: every setter changes its own field only, so each optional field
\* holds the value last supplied to its setter since new(), or None if it
\* was never called, and validation stays at its default until
\* danger_accept_invalid_certs is called.
C10_SetterFrame ==
    /\ cfg.domain = hist.domain
    /\ cfg.cert = hist.cert
    /\ cfg.identity = hist.identity
    /\ cfg.rustls_raw = hist.rustls_raw
    /\ (tls_dangerous /\ ~hist.danger) => cfg.certs_validation = TRUE

C10_Witness ==
    /\ cfg.domain # None
    /\ cfg.cert # None
    /\ cfg.identity # None
    /\ cfg.rustls_raw # None
    /\ hist.danger

====
